---- MODULE Spec2Model ----
(***************************************************************************)
(* Model of the OCR audit tool of src/__main__.py: text normalization,     *)
(* OCR error correction, the sliding-window fuzzy matcher, the             *)
(* any-document policy and the single-folder run (process_check_folder).   *)
(*                                                                         *)
(* A string is a sequence of Unicode code points (naturals), so that the   *)
(* character classes of the regular expressions, str.lower() and the       *)
(* rounding of the similarity score are computed, not assumed.             *)
(***************************************************************************)
EXTENDS Integers, Sequences, FiniteSets, TLC

(***************************************************************************)
(* Bounds of the model.                                                    *)
(***************************************************************************)
MaxQueryLen == 2      \* longest short query drawn for the matcher
MaxDocLen == 3        \* longest short reference drawn for the matcher
MaxTextLen == 3       \* longest raw string drawn for the normalizer
MaxCorpus == 2        \* most documents of a corpus drawn for the any-document check
MaxCorpusDocLen == 2  \* longest document of such a corpus
MaxFiles == 3         \* most files in the check folder
MaxLines == 2         \* most lines the OCR engine returns
LongLen == 200        \* length of the long OCR line drawn for the matcher

(***************************************************************************)
(* State.                                                                  *)
(*   backend       the sequence matcher fuzzywuzzy found at import         *)
(*   pc            position in process_check_folder, or in a direct call   *)
(*   check_dir     os.listdir(check_dir): the files of the folder, in order*)
(*   output_dir    TRUE when the output directory exists                   *)
(*   ocr           TRUE once PaddleOCR(...) has been constructed           *)
(*   loaded        TRUE once load_all_documents has run                    *)
(*   all_docs      the values of the dict load_all_documents returns       *)
(*   ocr_data      the (text, coords) pairs of the OCR result              *)
(*   next_line     index of the next line of ocr_data to compare           *)
(*   unmatched     the list of unmatched (text, coords) pairs              *)
(*   marked        the polygons drawn on the saved marked image, or None   *)
(*   report        the lines of text written to the report, or None        *)
(*   error         the ValueError raised, or None                          *)
(*   args, ret     arguments and return value of a direct call             *)
(***************************************************************************)
VARIABLES backend, pc, check_dir, output_dir, ocr, loaded, all_docs, ocr_data,
          next_line, unmatched, marked, report, error, args, ret

vars == <<backend, pc, check_dir, output_dir, ocr, loaded, all_docs, ocr_data,
          next_line, unmatched, marked, report, error, args, ret>>

None == "None"

(***************************************************************************)
(* Generic helpers on sequences.                                           *)
(***************************************************************************)
Max2(x, y) == IF x >= y THEN x ELSE y

Range(s) == {s[k] : k \in 1..Len(s)}

RECURSIVE Flatten(_)
Flatten(ss) == IF ss = <<>> THEN <<>> ELSE Head(ss) \o Flatten(Tail(ss))

\* All sequences over S of length 0..n.
SeqsUpTo(S, n) == UNION {[1..k -> S] : k \in 0..n}

\* s occurs in r as a contiguous substring.
IsSubstring(s, r) ==
    \E k \in 0..(Len(r) - Len(s)) : SubSeq(r, k + 1, k + Len(s)) = s

(***************************************************************************)
(* Characters.  Python's re module (str patterns) takes \w to be the       *)
(* alphanumerics of Unicode and the underscore, \s to be Unicode           *)
(* whitespace.  The classes below cover ASCII, the CJK unified ideographs, *)
(* U+0130 (capital I with dot above), U+0131 (dotless i) and U+0307        *)
(* (combining dot above, a mark: neither \w nor \s).                       *)
(***************************************************************************)
IsSpace(c) == c \in {9, 10, 11, 12, 13, 28, 29, 30, 31, 32, 133, 160, 12288}

IsWord(c) ==
    \/ c \in 48..57            \* 0-9
    \/ c \in 65..90            \* A-Z
    \/ c \in 97..122           \* a-z
    \/ c = 95                  \* _
    \/ c \in {304, 305}        \* U+0130, U+0131
    \/ c \in 19968..40959      \* CJK unified ideographs U+4E00..U+9FFF

\* str.lower() of one character: a sequence, because the lowercase form of
\* U+0130 is the two characters U+0069 U+0307.
LowerChar(c) ==
    IF c \in 65..90 THEN <<c + 32>>
    ELSE IF c = 304 THEN <<105, 775>>
    ELSE <<c>>

Lower(text) == Flatten([k \in 1..Len(text) |-> LowerChar(text[k])])

RECURSIVE LStrip(_)
LStrip(text) ==
    IF text # <<>> /\ IsSpace(Head(text)) THEN LStrip(Tail(text)) ELSE text

RECURSIVE RStrip(_)
RStrip(text) ==
    IF text # <<>> /\ IsSpace(text[Len(text)])
    THEN RStrip(SubSeq(text, 1, Len(text) - 1))
    ELSE text

Strip(text) == RStrip(LStrip(text))

(***************************************************************************)
(* preprocess_text: drop what is neither \w nor \s, lowercase, strip,      *)
(* drop all whitespace.                                                    *)
(***************************************************************************)
preprocess_text(text) ==
    LET kept == SelectSeq(text, LAMBDA c : IsWord(c) \/ IsSpace(c))
        lowered == Strip(Lower(kept))
    IN  SelectSeq(lowered, LAMBDA c : ~IsSpace(c))

(***************************************************************************)
(* correct_ocr_errors: the three rules of error_map, in order, each        *)
(* re.sub(pattern, replacement, text, flags=re.IGNORECASE).  A pattern is  *)
(* a sequence of character sets; under IGNORECASE a letter matches both    *)
(* cases, and "i" also matches U+0130 and U+0131.                          *)
(***************************************************************************)
IgnoreCase(c) ==
    IF c = 105 THEN {105, 73, 304, 305}
    ELSE IF c \in 97..122 THEN {c, c - 32}
    ELSE {c}

error_map ==
    << [pattern |-> <<{29031}, {36149, 27331}>>,           \* 照[贵櫃]
        replacement |-> <<26157, 36149>>],                 \* 昭贵
       [pattern |-> <<{32929}, {36149}>>,                  \* 股贵
        replacement |-> <<26157, 36149>>],                 \* 昭贵
       [pattern |-> [k \in 1..7 |->                        \* zhaxgui
                       IgnoreCase(<<122, 104, 97, 120, 103, 117, 105>>[k])],
        replacement |-> <<122, 104, 97, 111, 103, 117, 105>>] >>  \* zhaogui

MatchesAt(pattern, text, pos) ==
    /\ pos + Len(pattern) - 1 <= Len(text)
    /\ \A k \in 1..Len(pattern) : text[pos + k - 1] \in pattern[k]

\* re.sub: leftmost non-overlapping occurrences, scanning from pos.
RECURSIVE ReSub(_, _, _, _)
ReSub(pattern, replacement, text, pos) ==
    IF pos > Len(text) THEN <<>>
    ELSE IF MatchesAt(pattern, text, pos)
    THEN replacement \o ReSub(pattern, replacement, text, pos + Len(pattern))
    ELSE <<text[pos]>> \o ReSub(pattern, replacement, text, pos + 1)

RECURSIVE ApplyRules(_, _, _)
ApplyRules(rules, k, text) ==
    IF k > Len(rules) THEN text
    ELSE ApplyRules(rules, k + 1,
                    ReSub(rules[k].pattern, rules[k].replacement, text, 1))

correct_ocr_errors(text) == ApplyRules(error_map, 1, text)

(***************************************************************************)
(* fuzz.ratio(s1, s2) of fuzzywuzzy, called at line 63.  Equal strings     *)
(* score 100 and an empty string scores 0 before any matcher runs;         *)
(* otherwise the score is int(round(100 * 2.0 * M / T)) with               *)
(* T = len(s1) + len(s2) and M the matching characters found by the        *)
(* sequence matcher of the build: difflib.SequenceMatcher, or              *)
(* python-Levenshtein's ratio when that package is installed.              *)
(***************************************************************************)
Backends == {"difflib", "levenshtein"}

\* difflib: the elements of b that autojunk drops from the index b2j
\* (more than len(b) // 100 + 1 occurrences in a b of 200 or more elements).
Popular(b) ==
    IF Len(b) < 200 THEN {}
    ELSE {c \in Range(b) :
            Cardinality({k \in 1..Len(b) : b[k] = c}) > (Len(b) \div 100) + 1}

MinOf(S) == CHOOSE x \in S : \A y \in S : x <= y

MaxOf(S) == CHOOSE x \in S : \A y \in S : y <= x

\* difflib find_longest_match, main loop.  j2len[j] of row i is the length of
\* the run of equal, indexed (not popular) elements that ends at a[i], b[j]
\* inside a[alo:ahi], b[blo:bhi]; the loop keeps the first block, in the order
\* of i then j, that is strictly longer than all before it: the longest run,
\* and among the longest the one ending at the lowest i, then the lowest j.
\* Indices are 0-based as in difflib: a[i] is a[i + 1] here.
RunEndingAt(a, b, pop, alo, blo, i, j) ==
    LET lim == IF i - alo <= j - blo THEN i - alo + 1 ELSE j - blo + 1
        stop == {e \in 0..(lim - 1) :
                   a[i - e + 1] # b[j - e + 1] \/ b[j - e + 1] \in pop}
    IN  IF stop = {} THEN lim ELSE MinOf(stop)

LongestRun(a, b, pop, alo, ahi, blo, bhi) ==
    LET ends == {p \in (alo..(ahi - 1)) \X (blo..(bhi - 1)) :
                   a[p[1] + 1] = b[p[2] + 1] /\ b[p[2] + 1] \notin pop}
        size(p) == RunEndingAt(a, b, pop, alo, blo, p[1], p[2])
        top == MaxOf({size(p) : p \in ends})
        tops == {p \in ends : size(p) = top}
        i == MinOf({p[1] : p \in tops})
        j == MinOf({p[2] : p \in {t \in tops : t[1] = i}})
    IN  IF ends = {} THEN [i |-> alo, j |-> blo, size |-> 0]
        ELSE [i |-> i - top + 1, j |-> j - top + 1, size |-> top]

\* difflib find_longest_match, the two loops that extend the block over equal
\* elements before and after it (no element is junk: isjunk is None).
ExtendBack(a, b, alo, blo, m) ==
    LET lim == IF m.i - alo <= m.j - blo THEN m.i - alo ELSE m.j - blo
        stop == {e \in 1..lim : a[m.i - e + 1] # b[m.j - e + 1]}
        ext == IF stop = {} THEN lim ELSE MinOf(stop) - 1
    IN  [i |-> m.i - ext, j |-> m.j - ext, size |-> m.size + ext]

ExtendFwd(a, b, ahi, bhi, m) ==
    LET ra == ahi - (m.i + m.size)
        rb == bhi - (m.j + m.size)
        lim == IF ra <= rb THEN ra ELSE rb
        stop == {e \in 1..lim : a[m.i + m.size + e] # b[m.j + m.size + e]}
        ext == IF stop = {} THEN lim ELSE MinOf(stop) - 1
    IN  [m EXCEPT !.size = m.size + ext]

find_longest_match(a, b, pop, alo, ahi, blo, bhi) ==
    ExtendFwd(a, b, ahi, bhi,
              ExtendBack(a, b, alo, blo, LongestRun(a, b, pop, alo, ahi, blo, bhi)))

\* difflib get_matching_blocks: the longest block, then the same to its left
\* and to its right; the sum of the block sizes.
RECURSIVE MatchingBlocks(_, _, _, _, _, _, _)
MatchingBlocks(a, b, pop, alo, ahi, blo, bhi) ==
    LET m == find_longest_match(a, b, pop, alo, ahi, blo, bhi)
    IN  IF m.size = 0 THEN 0
        ELSE m.size
             + (IF alo < m.i /\ blo < m.j
                THEN MatchingBlocks(a, b, pop, alo, m.i, blo, m.j) ELSE 0)
             + (IF m.i + m.size < ahi /\ m.j + m.size < bhi
                THEN MatchingBlocks(a, b, pop, m.i + m.size, ahi, m.j + m.size, bhi)
                ELSE 0)

DifflibMatches(a, b) == MatchingBlocks(a, b, Popular(b), 0, Len(a), 0, Len(b))

\* python-Levenshtein: ratio = (T - d) / T with d the edit distance in which
\* a substitution costs 2, so that M = (T - d) / 2 is the length of a longest
\* common subsequence.  The common prefix and suffix are stripped first, then
\* the table is filled row by row.
CommonPrefix(a, b) ==
    LET lim == IF Len(a) <= Len(b) THEN Len(a) ELSE Len(b)
        stop == {k \in 1..lim : a[k] # b[k]}
    IN  IF stop = {} THEN lim ELSE MinOf(stop) - 1

CommonSuffix(a, b) ==
    LET lim == IF Len(a) <= Len(b) THEN Len(a) ELSE Len(b)
        stop == {k \in 1..lim : a[Len(a) - k + 1] # b[Len(b) - k + 1]}
    IN  IF stop = {} THEN lim ELSE MinOf(stop) - 1

\* One cell (i, j) of the table: cur is the row so far, cur[j] the cell to
\* the left, prev[j] the cell up and left, prev[j + 1] the cell above.
LcsCell(ai, b, prev, j, cur) ==
    Append(cur, IF ai = b[j] THEN prev[j] + 1 ELSE Max2(prev[j + 1], cur[j]))

\* The cells j = lo..hi of a row, in order.  The loop is split in halves so
\* that a long row does not nest deeply (the comparison makes the first half
\* a value before the second half starts).
RECURSIVE LcsCells(_, _, _, _, _, _)
LcsCells(ai, b, prev, lo, hi, cur) ==
    IF lo > hi THEN cur
    ELSE IF lo = hi THEN LcsCell(ai, b, prev, lo, cur)
    ELSE LET mid == (lo + hi) \div 2
             left == LcsCells(ai, b, prev, lo, mid, cur)
         IN  IF left = left THEN LcsCells(ai, b, prev, mid + 1, hi, left) ELSE cur

LcsRow(a, b, i, prev) == LcsCells(a[i], b, prev, 1, Len(b), <<0>>)

\* The rows i = lo..hi of the table, in order, split in the same way.
RECURSIVE LcsRows(_, _, _, _, _)
LcsRows(a, b, lo, hi, prev) ==
    IF lo > hi THEN prev
    ELSE IF lo = hi THEN LcsRow(a, b, lo, prev)
    ELSE LET mid == (lo + hi) \div 2
             upper == LcsRows(a, b, lo, mid, prev)
         IN  IF upper = upper THEN LcsRows(a, b, mid + 1, hi, upper) ELSE prev

LcsLength(a, b) ==
    LcsRows(a, b, 1, Len(a), [n \in 1..(Len(b) + 1) |-> 0])[Len(b) + 1]

LevenshteinMatches(a, b) ==
    LET p == CommonPrefix(a, b)
        a1 == SubSeq(a, p + 1, Len(a))
        b1 == SubSeq(b, p + 1, Len(b))
        s == CommonSuffix(a1, b1)
        a2 == SubSeq(a1, 1, Len(a1) - s)
        b2 == SubSeq(b1, 1, Len(b1) - s)
    IN  p + s + LcsLength(a2, b2)

\* utils.intr(100 * m.ratio()): int(round(x)) of the double x = 100 * (2.0 * M / T).
\* x is exact unless 200 * M / T is k + 1/2: then Python 3 rounds the double
\* product, which is k + 1/2 itself (rounded to the even neighbour) except for
\* the eight k below, where the product falls just under or just over the half.
HalfRoundsDown == {14, 28, 56, 57}
HalfRoundsUp == {3, 27, 54, 55}

intr(num, den) ==
    LET q == num \div den
        r == num % den
    IN  IF 2 * r > den THEN q + 1
        ELSE IF 2 * r < den THEN q
        ELSE IF q \in HalfRoundsDown THEN q
        ELSE IF q \in HalfRoundsUp THEN q + 1
        ELSE IF q % 2 = 0 THEN q ELSE q + 1

ratio(s1, s2) ==
    IF s1 = s2 THEN 100
    ELSE IF Len(s1) = 0 \/ Len(s2) = 0 THEN 0
    ELSE LET M == IF backend = "difflib" THEN DifflibMatches(s1, s2)
                  ELSE LevenshteinMatches(s1, s2)
         IN  intr(200 * M, Len(s1) + Len(s2))

(***************************************************************************)
(* sliding_window_match.  The result is the returned tuple (matched,       *)
(* window, score) together with scored, the calls of fuzz.ratio the scan   *)
(* made: the start index and the score of each window, in order.           *)
(***************************************************************************)
RECURSIVE ScanWindows(_, _, _, _, _, _, _, _)
ScanWindows(ocr_line, doc_text, threshold, window_size, max_start, i, best_score, scored) ==
    IF i > max_start
    THEN [matched |-> best_score >= threshold, window |-> <<>>,
          score |-> best_score, scored |-> scored]
    ELSE
      LET window == SubSeq(doc_text, i + 1, i + window_size)
          score == ratio(ocr_line, window)
          seen == Append(scored, [start |-> i, score |-> score])
      IN  IF score >= threshold
          THEN [matched |-> TRUE, window |-> window, score |-> score,
                scored |-> seen]
          ELSE ScanWindows(ocr_line, doc_text, threshold, window_size, max_start,
                           i + 1,
                           IF score > best_score THEN score ELSE best_score,
                           seen)

\* Variants of sliding_window_match with one slip each.
\* range(0, max_start): the last window is never scanned.
sliding_window_match_short(ocr_line, doc_text, threshold) ==
    LET max_start == Len(doc_text) - Len(ocr_line)
    IN  IF max_start < 0
        THEN [matched |-> FALSE, window |-> <<>>, score |-> 0, scored |-> <<>>]
        ELSE ScanWindows(ocr_line, doc_text, threshold, Len(ocr_line),
                         max_start - 1, 0, 0, <<>>)

\* No length guard: a reference shorter than the query is scanned as one
\* window, the whole reference.
sliding_window_match_permissive(ocr_line, doc_text, threshold) ==
    LET short == Len(doc_text) < Len(ocr_line)
        window_size == IF short THEN Len(doc_text) ELSE Len(ocr_line)
    IN  ScanWindows(ocr_line, doc_text, threshold, window_size,
                    Len(doc_text) - window_size, 0, 0, <<>>)

\* "score == threshold" in place of "score >= threshold".
RECURSIVE ScanWindowsEq(_, _, _, _, _, _, _, _)
ScanWindowsEq(ocr_line, doc_text, threshold, window_size, max_start, i, best_score, scored) ==
    IF i > max_start
    THEN [matched |-> best_score = threshold, window |-> <<>>,
          score |-> best_score, scored |-> scored]
    ELSE
      LET window == SubSeq(doc_text, i + 1, i + window_size)
          score == ratio(ocr_line, window)
          seen == Append(scored, [start |-> i, score |-> score])
      IN  IF score = threshold
          THEN [matched |-> TRUE, window |-> window, score |-> score,
                scored |-> seen]
          ELSE ScanWindowsEq(ocr_line, doc_text, threshold, window_size,
                             max_start, i + 1,
                             IF score > best_score THEN score ELSE best_score,
                             seen)

sliding_window_match_eq(ocr_line, doc_text, threshold) ==
    LET max_start == Len(doc_text) - Len(ocr_line)
    IN  IF max_start < 0
        THEN [matched |-> FALSE, window |-> <<>>, score |-> 0, scored |-> <<>>]
        ELSE ScanWindowsEq(ocr_line, doc_text, threshold, Len(ocr_line),
                           max_start, 0, 0, <<>>)

\* No early exit: every window is scored and the best one is returned.
RECURSIVE ScanWindowsAll(_, _, _, _, _, _, _, _)
ScanWindowsAll(ocr_line, doc_text, threshold, window_size, max_start, i, best, scored) ==
    IF i > max_start
    THEN [matched |-> best.score >= threshold,
          window |-> IF best.score >= threshold THEN best.window ELSE <<>>,
          score |-> best.score, scored |-> scored]
    ELSE
      LET window == SubSeq(doc_text, i + 1, i + window_size)
          score == ratio(ocr_line, window)
      IN  ScanWindowsAll(ocr_line, doc_text, threshold, window_size, max_start,
                         i + 1,
                         IF score > best.score
                         THEN [score |-> score, window |-> window] ELSE best,
                         Append(scored, [start |-> i, score |-> score]))

sliding_window_match_noexit(ocr_line, doc_text, threshold) ==
    LET max_start == Len(doc_text) - Len(ocr_line)
    IN  IF max_start < 0
        THEN [matched |-> FALSE, window |-> <<>>, score |-> 0, scored |-> <<>>]
        ELSE ScanWindowsAll(ocr_line, doc_text, threshold, Len(ocr_line),
                            max_start, 0, [score |-> 0, window |-> <<>>], <<>>)

sliding_window_match(ocr_line, doc_text, threshold) ==
    LET ocr_len == Len(ocr_line)
        window_size == ocr_len
        max_start == Len(doc_text) - window_size
    IN  IF max_start < 0
        THEN [matched |-> FALSE, window |-> <<>>, score |-> 0, scored |-> <<>>]
        ELSE ScanWindows(ocr_line, doc_text, threshold, window_size, max_start,
                         0, 0, <<>>)

(***************************************************************************)
(* text_exists_in_any_doc.  The result is the returned boolean together    *)
(* with scanned, the indices (in all_docs.values()) of the documents       *)
(* handed to sliding_window_match, in order.                               *)
(***************************************************************************)
DefaultThreshold == 100

RECURSIVE ScanDocs(_, _, _, _, _)
ScanDocs(proc_text, docs, threshold, d, scanned) ==
    IF d > Len(docs) THEN [result |-> FALSE, scanned |-> scanned]
    ELSE IF sliding_window_match(proc_text, docs[d], threshold).matched
    THEN [result |-> TRUE, scanned |-> Append(scanned, d)]
    ELSE ScanDocs(proc_text, docs, threshold, d + 1, Append(scanned, d))

\* Variants of text_exists_in_any_doc with one slip each.
\* No short-circuit: every document is scanned.
text_exists_scan_all(proc_text, docs, threshold) ==
    IF Len(proc_text) < 2 THEN [result |-> TRUE, scanned |-> <<>>]
    ELSE [result |-> \E d \in 1..Len(docs) :
                       sliding_window_match(proc_text, docs[d], threshold).matched,
          scanned |-> [d \in 1..Len(docs) |-> d]]

\* "len(proc_text) < 1": only the empty string is exempt.
text_exists_exempt_empty(proc_text, docs, threshold) ==
    IF Len(proc_text) < 1 THEN [result |-> TRUE, scanned |-> <<>>]
    ELSE ScanDocs(proc_text, docs, threshold, 1, <<>>)

text_exists_in_any_doc(proc_text, docs, threshold) ==
    IF Len(proc_text) < 2 THEN [result |-> TRUE, scanned |-> <<>>]
    ELSE ScanDocs(proc_text, docs, threshold, 1, <<>>)

(***************************************************************************)
(* load_all_documents.  A file of the folder is a record: its name, the    *)
(* extension its name ends with, and (for a document) its paragraphs.      *)
(***************************************************************************)
Dashes == [n \in 1..23 |-> 45]     \* "-----------------------"

StartsWith(text, prefix) ==
    Len(text) >= Len(prefix) /\ SubSeq(text, 1, Len(prefix)) = prefix

RECURSIVE Join(_)
Join(parts) ==
    IF parts = <<>> THEN <<>>
    ELSE IF Len(parts) = 1 THEN parts[1]
    ELSE parts[1] \o <<32>> \o Join(Tail(parts))

DocumentText(paragraphs) ==
    LET kept == SelectSeq(paragraphs,
                          LAMBDA para : Strip(para) # <<>> /\ ~StartsWith(para, Dashes))
        filtered == [n \in 1..Len(kept) |-> Strip(kept[n])]
    IN  preprocess_text(Join(filtered))

DocxExt == <<46, 100, 111, 99, 120>>     \* ".docx"

\* filename.endswith('.docx'): the extension as written, no lower().
IsDocx(file) == file.ext = DocxExt

load_all_documents(doc_dir) ==
    LET files == SelectSeq(doc_dir, IsDocx)
    IN  [n \in 1..Len(files) |-> DocumentText(files[n].paragraphs)]

(***************************************************************************)
(* The files the check folder may hold, the texts the OCR engine may       *)
(* return, and the inputs of the direct calls.                             *)
(***************************************************************************)
docA ==
    [name |-> "docA.docx", ext |-> DocxExt,
     paragraphs |-> << <<26157, 36149>>,            \* "昭贵"
                       <<32>>,                      \* " "
                       Dashes \o <<97>>,            \* "-----------------------a"
                       <<65, 98, 32, 99>> >>]       \* "Ab c"

docB ==
    [name |-> "docB.docx", ext |-> DocxExt,
     paragraphs |-> << <<>>,                        \* ""
                       <<98, 44, 32, 97>> >>]       \* "b, a"

scanPng == [name |-> "scan.png", ext |-> <<46, 112, 110, 103>>, paragraphs |-> <<>>]

photoJPG == [name |-> "photo.JPG", ext |-> <<46, 74, 80, 71>>, paragraphs |-> <<>>]

\* Neither a document (the test is case-sensitive) nor an image.
oldDOCX == [name |-> "old.DOCX", ext |-> <<46, 68, 79, 67, 88>>, paragraphs |-> <<>>]

Files == {docA, docB, scanPng, photoJPG, oldDOCX}

\* A directory listing: distinct files in some order.
Folders ==
    {f \in SeqsUpTo(Files, MaxFiles) :
        \A m, n \in 1..Len(f) : m # n => f[m] # f[n]}

RawTexts ==
    { <<29031, 44, 36149>>,     \* "照,贵"
      <<66, 32, 97>>,           \* "B a"
      <<97, 46>>,               \* "a."
      <<99, 97>>,               \* "ca"
      <<65, 66>> }              \* "AB"

Alphabet == {97, 98}            \* "a", "b"

Thresholds == 0..100

\* A long OCR line of distinct ideographs, and references that hold it
\* exactly, or with its last character misread, alone and before one more
\* character.
LongLine == [n \in 1..LongLen |-> 19968 + n]

Misread(text, pos) == [n \in 1..Len(text) |-> IF n = pos THEN 97 ELSE text[n]]

LongDocs ==
    {LongLine, LongLine \o <<98>>,
     Misread(LongLine, LongLen), Misread(LongLine, LongLen) \o <<98>>}

\* str over \w, \s, punctuation, both cases, and U+0130.
TextAlphabet == {97, 65, 32, 46, 304}

(***************************************************************************)
(* process_check_folder, one action per step.                              *)
(***************************************************************************)
ImageExts ==
    { <<46, 112, 110, 103>>,          \* ".png"
      <<46, 106, 112, 103>>,          \* ".jpg"
      <<46, 106, 112, 101, 103>>,     \* ".jpeg"
      <<46, 98, 109, 112>>,           \* ".bmp"
      <<46, 103, 105, 102>> }         \* ".gif"

IsImage(file) == Lower(file.ext) \in ImageExts

Idle ==
    /\ ocr = FALSE
    /\ loaded = FALSE
    /\ all_docs = <<>>
    /\ ocr_data = <<>>
    /\ next_line = 1
    /\ unmatched = <<>>
    /\ marked = None
    /\ report = None
    /\ error = None

Init ==
    /\ backend \in Backends
    /\ pc = "start"
    /\ check_dir \in Folders
    /\ output_dir \in BOOLEAN
    /\ Idle
    /\ args = None
    /\ ret = None

\* Validate without the test for documents.
ValidateImagesOnly ==
    /\ pc = "start"
    /\ LET images == SelectSeq(check_dir, IsImage)
       IN  /\ output_dir' = TRUE
           /\ IF Len(images) # 1
              THEN error' = "one image expected" /\ pc' = "error"
              ELSE error' = error /\ pc' = "init_ocr"
    /\ UNCHANGED <<backend, check_dir, ocr, loaded, all_docs, ocr_data,
                   next_line, unmatched, marked, report, args, ret>>

\* Lines 71-81: create the output directory, list the folder, validate.
Validate ==
    /\ pc = "start"
    /\ LET docs == SelectSeq(check_dir, IsDocx)
           images == SelectSeq(check_dir, IsImage)
       IN  /\ output_dir' = TRUE
           /\ IF Len(images) # 1
              THEN error' = "one image expected" /\ pc' = "error"
              ELSE IF docs = <<>>
              THEN error' = "no document" /\ pc' = "error"
              ELSE error' = error /\ pc' = "init_ocr"
    /\ UNCHANGED <<backend, check_dir, ocr, loaded, all_docs, ocr_data,
                   next_line, unmatched, marked, report, args, ret>>

\* Lines 84-91: construct the OCR engine.
InitOCR ==
    /\ pc = "init_ocr"
    /\ ocr' = TRUE
    /\ pc' = "load"
    /\ UNCHANGED <<backend, check_dir, output_dir, loaded, all_docs, ocr_data,
                   next_line, unmatched, marked, report, error, args, ret>>

\* Lines 94-95.
LoadDocuments ==
    /\ pc = "load"
    /\ all_docs' = load_all_documents(check_dir)
    /\ loaded' = TRUE
    /\ pc' = "ocr"
    /\ UNCHANGED <<backend, check_dir, output_dir, ocr, ocr_data,
                   next_line, unmatched, marked, report, error, args, ret>>

\* Lines 98-102: the engine returns some lines, each with its polygon (here
\* the number of the region); unmatched starts empty.
RunOCR ==
    /\ pc = "ocr"
    /\ \E texts \in SeqsUpTo(RawTexts, MaxLines) :
         ocr_data' = [n \in 1..Len(texts) |-> [text |-> texts[n], coords |-> n]]
    /\ unmatched' = <<>>
    /\ next_line' = 1
    /\ pc' = "match"
    /\ UNCHANGED <<backend, check_dir, output_dir, ocr, loaded, all_docs,
                   marked, report, error, args, ret>>

\* Line 104 with the two calls swapped: correction of the raw text.
comparison_text_raw(text) == preprocess_text(correct_ocr_errors(text))

\* Line 104: the string a line is compared by.
comparison_text(text) == correct_ocr_errors(preprocess_text(text))

\* Lines 103-106: one iteration of the loop over ocr_data.
MatchLine ==
    /\ pc = "match"
    /\ next_line <= Len(ocr_data)
    /\ LET line == ocr_data[next_line]
           proc_text == comparison_text(line.text)
       IN  unmatched' =
             IF ~text_exists_in_any_doc(proc_text, all_docs, DefaultThreshold).result
             THEN Append(unmatched, line)
             ELSE unmatched
    /\ next_line' = next_line + 1
    /\ UNCHANGED <<backend, pc, check_dir, output_dir, ocr, loaded, all_docs,
                   ocr_data, marked, report, error, args, ret>>

\* Lines 109-131: after the loop, the marked image and the report are
\* written when some line is unmatched; otherwise only a message is printed.
WriteResults ==
    /\ pc = "match"
    /\ next_line > Len(ocr_data)
    /\ IF unmatched # <<>>
       THEN /\ marked' = [n \in 1..Len(unmatched) |-> unmatched[n].coords]
            /\ report' = [n \in 1..Len(unmatched) |-> unmatched[n].text]
       ELSE UNCHANGED <<marked, report>>
    /\ pc' = "done"
    /\ UNCHANGED <<backend, check_dir, output_dir, ocr, loaded, all_docs,
                   ocr_data, next_line, unmatched, error, args, ret>>

Next ==
    \/ Validate
    \/ InitOCR
    \/ LoadDocuments
    \/ RunOCR
    \/ MatchLine
    \/ WriteResults

Spec == Init /\ [][Next]_vars

(***************************************************************************)
(* Direct calls of the pure functions, on inputs drawn from bounded sets.  *)
(***************************************************************************)
InitCall(inputs) ==
    /\ backend \in Backends
    /\ pc = "call"
    /\ check_dir = <<>>
    /\ output_dir = FALSE
    /\ Idle
    /\ args \in inputs
    /\ ret = None

Return(value) ==
    /\ pc = "call"
    /\ ret' = value
    /\ pc' = "returned"
    /\ UNCHANGED <<backend, check_dir, output_dir, ocr, loaded, all_docs,
                   ocr_data, next_line, unmatched, marked, report, error, args>>

\* sliding_window_match(ocr_line, doc_text, threshold): short strings at every
\* threshold, the long line at the default threshold.
MatchInputs ==
    [ocr_line : SeqsUpTo(Alphabet, MaxQueryLen),
     doc_text : SeqsUpTo(Alphabet, MaxDocLen),
     threshold : Thresholds]
    \cup [ocr_line : {LongLine}, doc_text : LongDocs, threshold : {DefaultThreshold}]

InitMatch == InitCall(MatchInputs)

CallMatch == Return(sliding_window_match(args.ocr_line, args.doc_text, args.threshold))

SpecMatch == InitMatch /\ [][CallMatch]_vars

\* text_exists_in_any_doc(proc_text, all_docs), threshold left at its default.
ExistsInputs ==
    [proc_text : SeqsUpTo(Alphabet, MaxQueryLen),
     docs : SeqsUpTo(SeqsUpTo(Alphabet, MaxCorpusDocLen), MaxCorpus),
     threshold : {DefaultThreshold}]

InitExists == InitCall(ExistsInputs)

CallExists == Return(text_exists_in_any_doc(args.proc_text, args.docs, args.threshold))

SpecExists == InitExists /\ [][CallExists]_vars

\* preprocess_text(text).
NormInputs == [text : SeqsUpTo(TextAlphabet, MaxTextLen)]

InitNorm == InitCall(NormInputs)

CallPreprocess == Return(preprocess_text(args.text))

SpecNorm == InitNorm /\ [][CallPreprocess]_vars

(***************************************************************************)
(* Properties.                                                             *)
(***************************************************************************)
\* The window of doc_text that starts at the 0-based index i.
WindowAt(ocr_line, doc_text, i) == SubSeq(doc_text, i + 1, i + Len(ocr_line))

Starts(ocr_line, doc_text) == 0..(Len(doc_text) - Len(ocr_line))

Returned == pc = "returned"

\* C1: when the query is a contiguous substring of the reference,
\* sliding_window_match at threshold 100 returns matched with score 100.
C1_SubstringMatches ==
    (Returned /\ args.threshold = 100 /\ IsSubstring(args.ocr_line, args.doc_text))
        => (ret.matched /\ ret.score = 100)

\* A query of two characters found only at the end of a longer reference.
C1_Witness ==
    /\ Returned
    /\ args.threshold = 100
    /\ Len(args.ocr_line) = 2
    /\ Len(args.doc_text) = 3
    /\ WindowAt(args.ocr_line, args.doc_text, 0) # args.ocr_line
    /\ WindowAt(args.ocr_line, args.doc_text, 1) = args.ocr_line
    /\ ret.matched

\* C2: at the default threshold, sliding_window_match returns matched only
\* if some window of the reference is identical to the query.
C2_MatchedOnlyIfIdentical ==
    (Returned /\ args.threshold = DefaultThreshold /\ ret.matched)
        => \E i \in Starts(args.ocr_line, args.doc_text) :
             WindowAt(args.ocr_line, args.doc_text, i) = args.ocr_line

\* C3: for a comparison string of two or more characters,
\* text_exists_in_any_doc is true exactly when some document matches, and the
\* documents scanned are the first, the second, ... up to the first one that
\* matches (all of them when none does).
C3_AnyDocument ==
    (Returned /\ Len(args.proc_text) >= 2)
        => LET hits == {d \in 1..Len(args.docs) :
                          sliding_window_match(args.proc_text, args.docs[d],
                                               DefaultThreshold).matched}
               last == IF hits = {} THEN Len(args.docs) ELSE MinOf(hits)
           IN  /\ ret.result = (hits # {})
               /\ ret.scanned = [d \in 1..last |-> d]

\* The first of two documents matches: the second is not scanned.
C3_Witness ==
    /\ Returned
    /\ Len(args.proc_text) >= 2
    /\ Len(args.docs) = 2
    /\ args.docs[1] = args.proc_text
    /\ args.docs[2] # args.proc_text
    /\ ret.result
    /\ ret.scanned = <<1>>

\* C4: a comparison string shorter than two characters is reported present
\* whatever the corpus, and no document is scanned.
C4_ShortExempt ==
    (Returned /\ Len(args.proc_text) < 2)
        => (ret.result /\ ret.scanned = <<>>)

\* One character that no document of a non-empty corpus contains.
C4_Witness ==
    /\ Returned
    /\ Len(args.proc_text) = 1
    /\ args.docs # <<>>
    /\ \A d \in 1..Len(args.docs) : ~IsSubstring(args.proc_text, args.docs[d])
    /\ ret.result

\* C5: a query longer than the reference returns (False, "", 0) at every
\* threshold, and no window is scored.
C5_LongerQuery ==
    (Returned /\ Len(args.ocr_line) > Len(args.doc_text))
        => ret = [matched |-> FALSE, window |-> <<>>, score |-> 0, scored |-> <<>>]

\* Threshold 0 and a non-empty reference one character shorter than the query.
C5_Witness ==
    /\ Returned
    /\ args.threshold = 0
    /\ Len(args.doc_text) > 0
    /\ Len(args.ocr_line) = Len(args.doc_text) + 1
    /\ ~ret.matched

\* C6: a match at a threshold is a match at every lower threshold.
C6_ThresholdMonotone ==
    (Returned /\ ret.matched)
        => \A t2 \in 0..args.threshold :
             sliding_window_match(args.ocr_line, args.doc_text, t2).matched

\* A match at threshold 50 by a window that is not the query.
C6_Witness ==
    /\ Returned
    /\ args.threshold = 50
    /\ ret.matched
    /\ ret.score = 50

\* C7: each line is compared as correct_ocr_errors(preprocess_text(text)),
\* and unmatched holds, in OCR order, exactly the lines compared so far whose
\* comparison string has two or more characters and matches no document at
\* threshold 100.
Compared == IF pc = "match" THEN next_line - 1 ELSE Len(ocr_data)

NoDocumentMatches(line) ==
    LET proc_text == correct_ocr_errors(preprocess_text(line.text))
    IN  /\ Len(proc_text) >= 2
        /\ \A d \in 1..Len(all_docs) :
             ~sliding_window_match(proc_text, all_docs[d], 100).matched

C7_Unmatched ==
    pc \in {"match", "done"}
        => unmatched = SelectSeq(SubSeq(ocr_data, 1, Compared), NoDocumentMatches)

\* A finished run over docA in which the misread name, corrected after
\* normalization, is matched and another line is not.
C7_Witness ==
    /\ pc = "done"
    /\ \E n \in 1..Len(ocr_data) :
         /\ ocr_data[n].text = <<29031, 44, 36149>>
         /\ \A m \in 1..Len(unmatched) : unmatched[m] # ocr_data[n]
    /\ unmatched # <<>>

\* C8: preprocess_text applied to its own result changes nothing.
C8_Idempotent == Returned => preprocess_text(ret) = ret

\* C9: a folder without exactly one image or without a .docx document ends
\* in an error, with no OCR engine constructed, no document loaded and no
\* marked image or report written; any other folder does not.
HasImageExt(file) ==
    \E e \in ImageExts :
        /\ Len(e) = Len(file.ext)
        /\ \A n \in 1..Len(e) : e[n] \in {file.ext[n], file.ext[n] + 32}

ImageCount == Cardinality({n \in 1..Len(check_dir) : HasImageExt(check_dir[n])})

DocxCount ==
    Cardinality({n \in 1..Len(check_dir) :
                   check_dir[n].ext = <<46, 100, 111, 99, 120>>})

ValidFolder == ImageCount = 1 /\ DocxCount >= 1

C9_ValidationFirst ==
    /\ pc = "error" <=> (pc # "start" /\ ~ValidFolder)
    /\ pc = "error" => (error # None /\ ~ocr /\ ~loaded /\ marked = None /\ report = None)
    /\ (ocr \/ loaded \/ marked # None \/ report # None) => ValidFolder

\* One image and no document.
C9_Witness ==
    /\ pc = "error"
    /\ ImageCount = 1
    /\ DocxCount = 0
    /\ Len(check_dir) >= 2

\* C10: with a reference at least as long as the query, a match returns the
\* window at the smallest start index whose score reaches the threshold, with
\* that window's score, and the windows scored are those up to it; without
\* such a window the result is unmatched, the window is "" and the score is
\* the maximum over all windows, all of which are scored.
C10_EarlyExit ==
    (Returned /\ Len(args.ocr_line) <= Len(args.doc_text))
        => LET starts == Starts(args.ocr_line, args.doc_text)
               score(i) == ratio(args.ocr_line, WindowAt(args.ocr_line, args.doc_text, i))
               hits == {i \in starts : score(i) >= args.threshold}
               last == IF hits = {} THEN MaxOf(starts) ELSE MinOf(hits)
           IN  /\ ret.scored = [n \in 1..(last + 1) |->
                                  [start |-> n - 1, score |-> score(n - 1)]]
               /\ ret.matched = (hits # {})
               /\ hits # {} => /\ ret.window = WindowAt(args.ocr_line, args.doc_text, last)
                               /\ ret.score = score(last)
               /\ hits = {} => /\ ret.window = <<>>
                               /\ ret.score = MaxOf({score(i) : i \in starts})

\* An early exit at the first window while a later window scores higher.
C10_Witness ==
    /\ Returned
    /\ ret.matched
    /\ Len(ret.scored) = 1
    /\ \E i \in Starts(args.ocr_line, args.doc_text) :
         /\ i >= 1
         /\ ratio(args.ocr_line, WindowAt(args.ocr_line, args.doc_text, i)) > ret.score

====
